---- MODULE Spec2Model ----
(***************************************************************************)
(* oslo.privsep: the multiplexed RPC channel of oslo_privsep/comm.py       *)
(* (Serializer, Deserializer, Future, ClientChannel, ServerChannel).       *)
(*                                                                         *)
(* Spec, FairSpec : ClientChannel callers, the background reader, close()  *)
(*                  and a peer process that uses a ServerChannel.  A frame *)
(*                  travels as two pieces (header, payload), the way one   *)
(*                  sendall may reach the socket in more than one write.   *)
(* FrameSpec      : Serializer.send / Deserializer.__next__ byte by byte.  *)
(* FinSpec        : callers, reader and a single-threaded peer over socket *)
(*                  buffers of finite capacity.                            *)
(*                                                                         *)
(* The capability calls of oslo_privsep/capabilities.py:                   *)
(* CapSpec        : set_keepcaps, drop_all_caps_except, get_caps against a *)
(*                  kernel that answers with success or an error.          *)
(* CodecSpec      : _mask_to_caps and _caps_to_mask on their own.          *)
(***************************************************************************)
EXTENDS Integers, Sequences, FiniteSets, TLC

\* ------------------------------------------------------------------ bounds
NThreads == 3
NIdents == 2
NServers == 2
MaxFrames == 2
MaxVal == 10
NCaps == 3
MaxCaps == 2
BufCap == 1
FrameChunks == 2

Threads == 1..NThreads
Idents == 1..NIdents
Servers == 1..NServers
\* The values handed to Serializer.send at the byte level.
Vals == 0..MaxVal

\* _HDRFMT_LEN = struct.calcsize('@I')
HDRFMT_LEN == 4

\* A call-id no caller thread has: a reply carrying it is a protocol violation.
NoSuchId == NIdents + 1
\* Future.data before set_result stores anything.
NoData == -1

VARIABLES
    pc,               \* per caller thread: where it is in send_recv
    reply,            \* per caller thread: the value send_recv returned
    late,             \* per caller thread: its send_recv began after the reader thread ended
    outstanding_msgs, \* ClientChannel.outstanding_msgs: call-id -> Future (named by its owner)
    data,             \* Future.data, per owner
    error,            \* Future.error, per owner
    resolved,         \* per Future: how many set_result / set_exception calls it received
    lock,             \* ClientChannel.lock: the set of its holders
    c2s,              \* pieces written by the client and not yet read by the peer
    s2c,              \* pieces written by the peer and not yet read by the client
    c2sShut,          \* the client shut its write half (Serializer.close)
    s2cShut,          \* the peer's write direction is closed: the client reads EOF after s2c
    peerGone,         \* the peer's socket is closed: client writes raise
    rpc,              \* the reader thread's position in _reader_main
    rmsg,             \* the (msgid, data) the reader holds
    spc,              \* per peer thread: position in its ServerChannel loop
    sreq,             \* per peer thread: the request it holds
    rlock,            \* ServerChannel.rlock: the set of its holders
    wlock,            \* ServerChannel.wlock: the set of its holders
    bogus,            \* the peer has sent a reply with an unregistered call-id
    cpc,              \* the thread that calls ClientChannel.close()
    \* ---- the byte level (FrameSpec)
    bigEndian,        \* the host's native byte order
    sent,             \* the values Serializer.send has written, in order
    stream,           \* the bytes written and not yet received
    wclosed,          \* the writing end is closed
    cut,              \* the writing end was closed inside a frame
    phase,            \* Deserializer.__next__: which _read_n it is in, or how it ended
    need,             \* _read_n: n, the bytes still to read
    buf,              \* _read_n: data, the bytes read so far
    nread,            \* the bytes recv has returned in total
    out,              \* the values the Deserializer has yielded, in order
    \* ---- capabilities.py (CapSpec, CodecSpec)
    argE,             \* drop_all_caps_except: the effective argument
    argP,             \* drop_all_caps_except: the permitted argument
    argI,             \* drop_all_caps_except: the inheritable argument
    kdata,            \* the kernel's capability sets of the process, as capget fills data[2]
    keepcaps,         \* the kernel's keep-capabilities flag of the process
    ffi_errno,        \* ffi.errno: errno as the last C call left it
    dropped,          \* a capset has succeeded
    last,             \* the outcome of the last library call
    cin_kind,         \* which of the two codec functions is applied first
    cin,              \* its argument
    cmid,             \* its result
    cout,             \* the result of the other function applied to cmid
    cstep,            \* how many of the two have been applied
    \* ---- finite stream buffers (FinSpec)
    fpc,              \* per caller thread: where it is in send_recv
    fsent,            \* per caller thread: the chunks of its request sendall has written
    fdata,            \* Future.data, per owner
    freg,             \* the call-ids registered in outstanding_msgs
    flock,            \* ClientChannel.lock: the set of its holders
    fup,              \* the chunks in the buffer from client to peer
    fdown,            \* the chunks in the buffer from peer to client
    fsrv,             \* the peer thread: reading a request or writing its reply
    frdr              \* the reader thread: reading a reply or holding one

chanVars == <<pc, reply, late, outstanding_msgs, data, error, resolved, lock,
              c2s, s2c, c2sShut, s2cShut, peerGone, rpc, rmsg, spc, sreq,
              rlock, wlock, bogus, cpc>>

frameVars == <<bigEndian, sent, stream, wclosed, cut, phase, need, buf, nread, out>>

capVars == <<argE, argP, argI, kdata, keepcaps, ffi_errno, dropped, last>>

codecVars == <<cin_kind, cin, cmid, cout, cstep>>

finVars == <<fpc, fsent, fdata, freg, flock, fup, fdown, fsrv, frdr>>

vars == <<chanVars, frameVars, capVars, codecVars, finVars>>

\* ------------------------------------------------------------ wire pieces
Piece(p, id, d) == [part |-> p, id |-> id, data |-> d]

\* Serializer.send: struct.pack(_HDRFMT, len(buf)) + buf, handed to sendall.
Frame(id, d) == <<Piece("hdr", id, d), Piece("body", id, d)>>

\* w is a concatenation of whole frames.
WholeFrames(w) ==
    /\ Len(w) % 2 = 0
    /\ \A i \in 1..Len(w) :
          IF i % 2 = 1
          THEN w[i].part = "hdr"
          ELSE w[i] = Piece("body", w[i-1].id, w[i-1].data)

\* Whole frames, then possibly the header of a frame still being written.
FramesThenHeader(w) ==
    \/ WholeFrames(w)
    \/ /\ Len(w) % 2 = 1
       /\ WholeFrames(SubSeq(w, 1, Len(w) - 1))
       /\ w[Len(w)].part = "hdr"

\* _get_thread_ident: the call-id of a caller.
get_thread_ident(t) == ((t - 1) % NIdents) + 1

\* The msg argument of caller t's send_recv: a value no other call sends.
Msg(t) == t

\* The peer's dispatcher: the reply value for a request value.
Echo(m) == m + NThreads

Registered == {"sending", "waiting", "woken"}

DictSet(d, k, v) == [i \in DOMAIN d \cup {k} |-> IF i = k THEN v ELSE d[i]]
\* Variant: the finally clause leaves the registry as it is.
DictKeep(d, k) == d

\* del self.outstanding_msgs[myid]
DictDel(d, k) == [i \in DOMAIN d \ {k} |-> d[i]]

\* The reader thread has ended: _reader_main returned or raised.
ReaderTerminated == rpc \in {"done", "EOFError", "AssertionError"}

\* sendall on the client's socket raises.
ClientWriteFails == c2sShut \/ peerGone

\* ------------------------------------------------------------------- Init
ChanInit ==
    /\ pc = [t \in Threads |-> "idle"]
    /\ reply = [t \in Threads |-> NoData]
    /\ late = [t \in Threads |-> FALSE]
    /\ outstanding_msgs = << >>
    /\ data = [t \in Threads |-> NoData]
    /\ error = [t \in Threads |-> "None"]
    /\ resolved = [t \in Threads |-> 0]
    /\ lock = {}
    /\ c2s = << >>
    /\ s2c = << >>
    /\ c2sShut = FALSE
    /\ s2cShut = FALSE
    /\ peerGone = FALSE
    /\ rpc = "reading"
    /\ rmsg = <<NoSuchId, NoData>>
    /\ spc = [s \in Servers |-> "idle"]
    /\ sreq = [s \in Servers |-> <<NoSuchId, NoData>>]
    /\ rlock = {}
    /\ wlock = {}
    /\ bogus = FALSE
    /\ cpc = "idle"

\* The byte level before anything is written: __next__ is about to read a header.
FrameStart(be) ==
    /\ bigEndian = be
    /\ sent = << >>
    /\ stream = << >>
    /\ wclosed = FALSE
    /\ cut = FALSE
    /\ phase = "hdr"
    /\ need = HDRFMT_LEN
    /\ buf = << >>
    /\ nread = 0
    /\ out = << >>


\* ------------------------------------------------------------------ Future
\* Condition.notify: wakes the owner if it is inside condvar.wait().
notify(p, t) == IF p[t] = "waiting" THEN [p EXCEPT ![t] = "woken"] ELSE p

\* ----------------------------------------------------- ClientChannel.send_recv
\* Variant: send_recv writes without taking the lock.
send_recv_unlocked == TRUE

\* with self.lock: the lock can be taken.
send_recv_may_lock == lock = {}

\* Variant: the assertion is not evaluated.
id_never_in_use(t) == FALSE

\* assert myid not in self.outstanding_msgs: the condition that fails it.
id_in_use(t) == get_thread_ident(t) \in DOMAIN outstanding_msgs

\* send_recv up to the first piece of the write: take the lock, assert, register,
\* writer.send; a failed write leaves through the finally clause.
send_recv_begin(t) ==
    /\ pc[t] = "idle"
    /\ send_recv_may_lock
    /\ late' = [late EXCEPT ![t] = ReaderTerminated]
    /\ IF id_in_use(t)
       THEN /\ pc' = [pc EXCEPT ![t] = "AssertionError"]
            /\ UNCHANGED <<outstanding_msgs, c2s, lock>>
       ELSE IF ClientWriteFails
       THEN /\ pc' = [pc EXCEPT ![t] = "WriteError"]
            /\ UNCHANGED <<outstanding_msgs, c2s, lock>>
       ELSE /\ pc' = [pc EXCEPT ![t] = "sending"]
            /\ outstanding_msgs' = DictSet(outstanding_msgs, get_thread_ident(t), t)
            /\ c2s' = Append(c2s, Frame(get_thread_ident(t), Msg(t))[1])
            /\ lock' = {t}
    /\ UNCHANGED <<reply, data, error, resolved, s2c, c2sShut, s2cShut, peerGone,
                   rpc, rmsg, spc, sreq, rlock, wlock, bogus, cpc>>
    /\ UNCHANGED <<frameVars, capVars, codecVars, finVars>>

\* Variant: the wait keeps the lock.
wait_keeps_lock(l, t) == l

\* self.condvar.wait(): the lock is released for the duration of the wait.
wait_releases_lock(l, t) == l \ {t}

\* The rest of the write, then future.result() enters condvar.wait(), which
\* releases the lock; a failed write deregisters and releases the lock.
send_recv_send(t) ==
    /\ pc[t] = "sending"
    /\ IF ClientWriteFails
       THEN /\ pc' = [pc EXCEPT ![t] = "WriteError"]
            /\ outstanding_msgs' = DictDel(outstanding_msgs, get_thread_ident(t))
            /\ lock' = lock \ {t}
            /\ UNCHANGED c2s
       ELSE /\ pc' = [pc EXCEPT ![t] = "waiting"]
            /\ c2s' = Append(c2s, Frame(get_thread_ident(t), Msg(t))[2])
            /\ lock' = wait_releases_lock(lock, t)
            /\ UNCHANGED outstanding_msgs
    /\ UNCHANGED <<reply, late, data, error, resolved, s2c, c2sShut, s2cShut,
                   peerGone, rpc, rmsg, spc, sreq, rlock, wlock, bogus, cpc>>
    /\ UNCHANGED <<frameVars, capVars, codecVars, finVars>>

\* Future.result after the wait: the woken owner takes the lock again, raises
\* the stored error or returns the stored data; finally: del, lock released.
send_recv_result(t) ==
    /\ pc[t] = "woken"
    /\ lock = {}
    /\ IF error[t] # "None"
       THEN /\ pc' = [pc EXCEPT ![t] = error[t]]
            /\ UNCHANGED reply
       ELSE /\ pc' = [pc EXCEPT ![t] = "returned"]
            /\ reply' = [reply EXCEPT ![t] = data[t]]
    /\ outstanding_msgs' = DictDel(outstanding_msgs, get_thread_ident(t))
    /\ UNCHANGED <<late, data, error, resolved, lock, c2s, s2c, c2sShut, s2cShut,
                   peerGone, rpc, rmsg, spc, sreq, rlock, wlock, bogus, cpc>>
    /\ UNCHANGED <<frameVars, capVars, codecVars, finVars>>

\* ------------------------------------------------- ClientChannel._reader_main
\* Deserializer.__next__ on the client's socket: one whole frame.
reader_next ==
    /\ rpc = "reading"
    /\ Len(s2c) >= 2
    /\ rmsg' = <<s2c[2].id, s2c[2].data>>
    /\ s2c' = SubSeq(s2c, 3, Len(s2c))
    /\ rpc' = "got"
    /\ UNCHANGED <<pc, reply, late, outstanding_msgs, data, error, resolved, lock,
                   c2s, c2sShut, s2cShut, peerGone, spc, sreq, rlock, wlock, bogus, cpc>>
    /\ UNCHANGED <<frameVars, capVars, codecVars, finVars>>

\* The stream ends at a frame boundary: StopIteration ends the for loop.
reader_stop ==
    /\ rpc = "reading"
    /\ s2c = << >>
    /\ s2cShut
    /\ rpc' = "eof"
    /\ UNCHANGED <<pc, reply, late, outstanding_msgs, data, error, resolved, lock,
                   c2s, s2c, c2sShut, s2cShut, peerGone, rmsg, spc, sreq, rlock, wlock,
                   bogus, cpc>>
    /\ UNCHANGED <<frameVars, capVars, codecVars, finVars>>

\* The stream ends after a header: _read_n(buflen) raises EOFError, which
\* nothing in _reader_main catches.
reader_truncated ==
    /\ rpc = "reading"
    /\ Len(s2c) = 1
    /\ s2cShut
    /\ s2c' = << >>
    /\ rpc' = "EOFError"
    /\ UNCHANGED <<pc, reply, late, outstanding_msgs, data, error, resolved, lock,
                   c2s, c2sShut, s2cShut, peerGone, rmsg, spc, sreq, rlock, wlock,
                   bogus, cpc>>
    /\ UNCHANGED <<frameVars, capVars, codecVars, finVars>>

\* Variant: the reader resolves Futures without taking the lock.
reader_unlocked == TRUE

\* with self.lock: (in _reader_main) the lock can be taken.
reader_may_lock == lock = {}

\* Variant: a reply goes to some registered Future, whatever its call-id.
mbox_of_any(msgid) == outstanding_msgs[CHOOSE i \in DOMAIN outstanding_msgs : TRUE]

\* self.outstanding_msgs[msgid]: the Future a reply is demuxed to.
mbox_of(msgid) == outstanding_msgs[msgid]

\* with self.lock: assert msgid in outstanding_msgs; set_result(data).
reader_deliver ==
    /\ rpc = "got"
    /\ reader_may_lock
    /\ IF rmsg[1] \in DOMAIN outstanding_msgs
       THEN LET t == mbox_of(rmsg[1]) IN
            /\ data' = [data EXCEPT ![t] = rmsg[2]]
            /\ resolved' = [resolved EXCEPT ![t] = @ + 1]
            /\ pc' = notify(pc, t)
            /\ rpc' = "reading"
       ELSE /\ rpc' = "AssertionError"
            /\ UNCHANGED <<data, resolved, pc>>
    /\ rmsg' = <<NoSuchId, NoData>>
    /\ UNCHANGED <<reply, late, outstanding_msgs, error, lock, c2s, s2c, c2sShut,
                   s2cShut, peerGone, spc, sreq, rlock, wlock, bogus, cpc>>
    /\ UNCHANGED <<frameVars, capVars, codecVars, finVars>>

\* Variant: the EOF handling resolves one registered Future and stops.
eof_mboxes_first ==
    IF outstanding_msgs = << >> THEN {}
    ELSE {outstanding_msgs[CHOOSE i \in DOMAIN outstanding_msgs : TRUE]}

\* self.outstanding_msgs.values(): the Futures the EOF handling resolves.
eof_mboxes == {outstanding_msgs[i] : i \in DOMAIN outstanding_msgs}

\* After the loop: with self.lock: set_exception(exc) on every registered Future.
reader_eof ==
    /\ rpc = "eof"
    /\ reader_may_lock
    /\ LET mboxes == eof_mboxes IN
       /\ error' = [t \in Threads |-> IF t \in mboxes THEN "IOError" ELSE error[t]]
       /\ resolved' = [t \in Threads |-> IF t \in mboxes THEN resolved[t] + 1 ELSE resolved[t]]
       /\ pc' = [t \in Threads |-> IF t \in mboxes THEN notify(pc, t)[t] ELSE pc[t]]
    /\ rpc' = "done"
    /\ UNCHANGED <<reply, late, outstanding_msgs, data, lock, c2s, s2c, c2sShut,
                   s2cShut, peerGone, rmsg, spc, sreq, rlock, wlock, bogus, cpc>>
    /\ UNCHANGED <<frameVars, capVars, codecVars, finVars>>

\* --------------------------------------------------------- ClientChannel.close
close_call ==
    /\ cpc = "idle"
    /\ cpc' = "entered"
    /\ UNCHANGED <<pc, reply, late, outstanding_msgs, data, error, resolved, lock,
                   c2s, s2c, c2sShut, s2cShut, peerGone, rpc, rmsg, spc, sreq,
                   rlock, wlock, bogus>>
    /\ UNCHANGED <<frameVars, capVars, codecVars, finVars>>

\* with self.lock: self.writer.close()   (shutdown(SHUT_WR))
close_shutdown ==
    /\ cpc = "entered"
    /\ lock = {}
    /\ c2sShut' = TRUE
    /\ cpc' = "joining"
    /\ UNCHANGED <<pc, reply, late, outstanding_msgs, data, error, resolved, lock,
                   c2s, s2c, s2cShut, peerGone, rpc, rmsg, spc, sreq, rlock, wlock, bogus>>
    /\ UNCHANGED <<frameVars, capVars, codecVars, finVars>>

\* Variant: close() does not wait for the reader thread.
reader_not_joined == TRUE

\* self.reader_thread.join() returns.
reader_joined == ReaderTerminated

\* self.reader_thread.join()
close_join ==
    /\ cpc = "joining"
    /\ reader_joined
    /\ cpc' = "returned"
    /\ UNCHANGED <<pc, reply, late, outstanding_msgs, data, error, resolved, lock,
                   c2s, s2c, c2sShut, s2cShut, peerGone, rpc, rmsg, spc, sreq,
                   rlock, wlock, bogus>>
    /\ UNCHANGED <<frameVars, capVars, codecVars, finVars>>

\* -------------------------------------------------- the peer: ServerChannel
\* Variant: one lock guards both directions of the ServerChannel.
one_lock_free == rlock = {} /\ wlock = {}

\* with self.rlock: the read lock can be taken.
rlock_free == rlock = {}

\* with self.wlock: the write lock can be taken.
wlock_free == wlock = {}

\* ServerChannel.__next__: with self.rlock: next(self.reader_iter)
server_next_enter(s) ==
    /\ spc[s] = "idle"
    /\ rlock_free
    /\ ~peerGone
    /\ rlock' = {s}
    /\ spc' = [spc EXCEPT ![s] = "reading"]
    /\ UNCHANGED <<pc, reply, late, outstanding_msgs, data, error, resolved, lock,
                   c2s, s2c, c2sShut, s2cShut, peerGone, rpc, rmsg, sreq, wlock, bogus, cpc>>
    /\ UNCHANGED <<frameVars, capVars, codecVars, finVars>>

server_next(s) ==
    /\ spc[s] = "reading"
    /\ ~peerGone
    /\ Len(c2s) >= 2
    /\ sreq' = [sreq EXCEPT ![s] = <<c2s[2].id, c2s[2].data>>]
    /\ c2s' = SubSeq(c2s, 3, Len(c2s))
    /\ rlock' = rlock \ {s}
    /\ spc' = [spc EXCEPT ![s] = "got"]
    /\ UNCHANGED <<pc, reply, late, outstanding_msgs, data, error, resolved, lock,
                   s2c, c2sShut, s2cShut, peerGone, rpc, rmsg, wlock, bogus, cpc>>
    /\ UNCHANGED <<frameVars, capVars, codecVars, finVars>>

\* The client's half-close reaches the peer at a frame boundary: StopIteration.
server_stop(s) ==
    /\ spc[s] = "reading"
    /\ ~peerGone
    /\ c2s = << >>
    /\ c2sShut
    /\ rlock' = rlock \ {s}
    /\ spc' = [spc EXCEPT ![s] = "stopped"]
    /\ UNCHANGED <<pc, reply, late, outstanding_msgs, data, error, resolved, lock,
                   c2s, s2c, c2sShut, s2cShut, peerGone, rpc, rmsg, sreq, wlock, bogus, cpc>>
    /\ UNCHANGED <<frameVars, capVars, codecVars, finVars>>

\* ServerChannel.send([call_id, reply]): with self.wlock: writer.send, first piece.
\* Once the peer has shut its write direction the send raises and the reply is lost.
server_send_begin(s) ==
    /\ spc[s] = "got"
    /\ wlock_free
    /\ ~peerGone
    /\ IF s2cShut
       THEN /\ spc' = [spc EXCEPT ![s] = "idle"]
            /\ sreq' = [sreq EXCEPT ![s] = <<NoSuchId, NoData>>]
            /\ UNCHANGED <<s2c, wlock>>
       ELSE /\ s2c' = Append(s2c, Frame(sreq[s][1], Echo(sreq[s][2]))[1])
            /\ wlock' = {s}
            /\ spc' = [spc EXCEPT ![s] = "sending"]
            /\ UNCHANGED sreq
    /\ UNCHANGED <<pc, reply, late, outstanding_msgs, data, error, resolved, lock,
                   c2s, c2sShut, s2cShut, peerGone, rpc, rmsg, rlock, bogus, cpc>>
    /\ UNCHANGED <<frameVars, capVars, codecVars, finVars>>

server_send(s) ==
    /\ spc[s] = "sending"
    /\ ~peerGone
    /\ IF s2cShut
       THEN UNCHANGED s2c
       ELSE s2c' = Append(s2c, Frame(sreq[s][1], Echo(sreq[s][2]))[2])
    /\ wlock' = wlock \ {s}
    /\ spc' = [spc EXCEPT ![s] = "idle"]
    /\ sreq' = [sreq EXCEPT ![s] = <<NoSuchId, NoData>>]
    /\ UNCHANGED <<pc, reply, late, outstanding_msgs, data, error, resolved, lock,
                   c2s, c2sShut, s2cShut, peerGone, rpc, rmsg, rlock, bogus, cpc>>
    /\ UNCHANGED <<frameVars, capVars, codecVars, finVars>>

\* A reply whose call-id no caller has registered.
server_bogus ==
    /\ ~bogus
    /\ ~peerGone
    /\ ~s2cShut
    /\ wlock = {}
    /\ s2c' = s2c \o Frame(NoSuchId, Echo(1))
    /\ bogus' = TRUE
    /\ UNCHANGED <<pc, reply, late, outstanding_msgs, data, error, resolved, lock,
                   c2s, c2sShut, s2cShut, peerGone, rpc, rmsg, spc, sreq, rlock, wlock, cpc>>
    /\ UNCHANGED <<frameVars, capVars, codecVars, finVars>>

\* The peer shuts only its write direction (Serializer.close) and keeps reading.
server_shutdown ==
    /\ ~peerGone
    /\ ~s2cShut
    /\ wlock = {}
    /\ s2cShut' = TRUE
    /\ UNCHANGED <<pc, reply, late, outstanding_msgs, data, error, resolved, lock,
                   c2s, s2c, c2sShut, peerGone, rpc, rmsg, spc, sreq, rlock, wlock, bogus, cpc>>
    /\ UNCHANGED <<frameVars, capVars, codecVars, finVars>>

\* The privileged process exits, at any point, also in the middle of a frame:
\* its threads and what they hold are gone with it.
server_exit ==
    /\ ~peerGone
    /\ peerGone' = TRUE
    /\ s2cShut' = TRUE
    /\ spc' = [s \in Servers |-> "stopped"]
    /\ sreq' = [s \in Servers |-> <<NoSuchId, NoData>>]
    /\ rlock' = {}
    /\ wlock' = {}
    /\ UNCHANGED <<pc, reply, late, outstanding_msgs, data, error, resolved, lock,
                   c2s, s2c, c2sShut, rpc, rmsg, bogus, cpc>>
    /\ UNCHANGED <<frameVars, capVars, codecVars, finVars>>

\* The peer answers the client's half-close: every thread of it saw the end of
\* the requests, and the process closes its socket.
server_close ==
    /\ ~peerGone
    /\ \A s \in Servers : spc[s] = "stopped"
    /\ peerGone' = TRUE
    /\ s2cShut' = TRUE
    /\ UNCHANGED <<pc, reply, late, outstanding_msgs, data, error, resolved, lock,
                   c2s, s2c, c2sShut, rpc, rmsg, spc, sreq, rlock, wlock, bogus, cpc>>
    /\ UNCHANGED <<frameVars, capVars, codecVars, finVars>>

\* ------------------------------------------------- Serializer / Deserializer
Min(a, b) == IF a < b THEN a ELSE b

\* json.dumps(msg).encode('utf-8') of a small natural: its decimal digits.
JsonDumps(v) ==
    IF v < 10 THEN <<48 + v>> ELSE <<48 + (v \div 10), 48 + (v % 10)>>

\* json.loads(...decode('utf-8')) of decimal digits.
RECURSIVE JsonLoads(_)
JsonLoads(b) ==
    IF b = << >> THEN 0
    ELSE 10 * JsonLoads(SubSeq(b, 1, Len(b) - 1)) + (b[Len(b)] - 48)

ByteAt(b, i) == IF i <= Len(b) THEN b[i] ELSE 0

\* struct.pack('@I', n): four bytes in the host's byte order.
Pack(n, be) ==
    LET le == <<n % 256, (n \div 256) % 256, (n \div 65536) % 256,
                (n \div 16777216) % 256>>
    IN  IF be THEN <<le[4], le[3], le[2], le[1]>> ELSE le

\* struct.unpack('@I', b)
Unpack(b, be) ==
    IF be
    THEN ByteAt(b, 4) + 256 * ByteAt(b, 3) + 65536 * ByteAt(b, 2) + 16777216 * ByteAt(b, 1)
    ELSE ByteAt(b, 1) + 256 * ByteAt(b, 2) + 65536 * ByteAt(b, 3) + 16777216 * ByteAt(b, 4)

\* Serializer.send: the bytes of one frame.
FrameBytes(v, be) == Pack(Len(JsonDumps(v)), be) \o JsonDumps(v)

RECURSIVE Encode(_, _)
Encode(vs, be) ==
    IF vs = << >> THEN << >> ELSE FrameBytes(Head(vs), be) \o Encode(Tail(vs), be)

\* Serializer.send(v)
Serializer_send(v) ==
    /\ ~wclosed
    /\ Len(sent) < MaxFrames
    /\ sent' = Append(sent, v)
    /\ stream' = stream \o FrameBytes(v, bigEndian)
    /\ UNCHANGED <<bigEndian, wclosed, cut, phase, need, buf, nread, out>>
    /\ UNCHANGED <<chanVars, capVars, codecVars, finVars>>

\* Serializer.close(): the stream ends at a frame boundary.
Serializer_close ==
    /\ ~wclosed
    /\ wclosed' = TRUE
    /\ UNCHANGED <<bigEndian, sent, stream, cut, phase, need, buf, nread, out>>
    /\ UNCHANGED <<chanVars, capVars, codecVars, finVars>>

\* The writing process dies k bytes into the frame of v.
writer_dies(v, k) ==
    /\ ~wclosed
    /\ k < Len(FrameBytes(v, bigEndian))
    /\ stream' = stream \o SubSeq(FrameBytes(v, bigEndian), 1, k)
    /\ wclosed' = TRUE
    /\ cut' = TRUE
    /\ UNCHANGED <<bigEndian, sent, phase, need, buf, nread, out>>
    /\ UNCHANGED <<chanVars, capVars, codecVars, finVars>>

\* Variant: _read_n returns after its first recv.
read_n_once(n) == FALSE

\* _read_n: while n > 0
read_n_more(n) == n > 0

\* recv(n): at least one byte and at most n of those that have arrived.
recv_sizes(n, arrived) == 1..Min(n, arrived)

\* One recv(n) of _read_n that returns k bytes; when the loop ends, __next__
\* goes on: a complete header starts the payload's _read_n(buflen), a complete
\* payload is decoded and yielded.
Deserializer_recv(k) ==
    /\ phase \in {"hdr", "body"}
    /\ k \in recv_sizes(need, Len(stream))
    /\ stream' = SubSeq(stream, k + 1, Len(stream))
    /\ nread' = nread + k
    /\ LET all == buf \o SubSeq(stream, 1, k)
           n == need - k
       IN  IF read_n_more(n)
           THEN /\ buf' = all
                /\ need' = n
                /\ UNCHANGED <<phase, out>>
           ELSE /\ buf' = << >>
                /\ IF phase = "hdr"
                   THEN /\ phase' = "body"
                        /\ need' = Unpack(all, bigEndian)
                        /\ UNCHANGED out
                   ELSE /\ phase' = "hdr"
                        /\ need' = HDRFMT_LEN
                        /\ out' = Append(out, JsonLoads(all))
    /\ UNCHANGED <<bigEndian, sent, wclosed, cut>>
    /\ UNCHANGED <<chanVars, capVars, codecVars, finVars>>

\* recv returns b'': _read_n raises EOFError; __next__ turns the one raised
\* while it reads the header into StopIteration.
Deserializer_eof ==
    /\ phase \in {"hdr", "body"}
    /\ stream = << >>
    /\ wclosed
    /\ phase' = IF phase = "hdr" THEN "StopIteration" ELSE "EOFError"
    /\ UNCHANGED <<bigEndian, sent, stream, wclosed, cut, need, buf, nread, out>>
    /\ UNCHANGED <<chanVars, capVars, codecVars, finVars>>

\* ============================================================ capabilities.py
\* A Python int is kept as five 16-bit limbs, least significant first: wide
\* enough for a mask with bits above bit 63.
MaskZero == <<0, 0, 0, 0, 0>>

\* Bit i of a limb.
Bit(x, i) == (x \div (2 ^ i)) % 2

RECURSIVE OrLimb(_, _, _)
OrLimb(x, y, i) ==
    IF i = 16 THEN 0
    ELSE IF i = 0 /\ x = 0 THEN y
    ELSE IF i = 0 /\ y = 0 THEN x
    ELSE (IF Bit(x, i) = 1 \/ Bit(y, i) = 1 THEN 2 ^ i ELSE 0) + OrLimb(x, y, i + 1)

\* a | b
BitOr(a, b) ==
    <<OrLimb(a[1], b[1], 0), OrLimb(a[2], b[2], 0), OrLimb(a[3], b[3], 0),
      OrLimb(a[4], b[4], 0), OrLimb(a[5], b[5], 0)>>

\* 1 << n
LimbOfOne(n, k) == IF k = (n \div 16) + 1 THEN 2 ^ (n % 16) ELSE 0

OneShl(n) ==
    <<LimbOfOne(n, 1), LimbOfOne(n, 2), LimbOfOne(n, 3), LimbOfOne(n, 4), LimbOfOne(n, 5)>>

\* Variant: only the low 32 bits of a mask are looked at.
bit_is_set_low(mask, i) == i < 32 /\ Bit(mask[(i \div 16) + 1], i % 16) = 1

\* (1 << i) & mask, as the truth value the comprehension tests.
bit_is_set(mask, i) == Bit(mask[(i \div 16) + 1], i % 16) = 1

\* range(64)
range64 == [i \in 1..64 |-> i - 1]

\* _mask_to_caps: [i for i in range(64) if (1 << i) & mask]
_mask_to_caps(mask) == SelectSeq(range64, LAMBDA i : bit_is_set(mask, i))

\* _caps_to_mask: mask = 0; for cap in caps: mask |= 1 << cap
\* (caps_to_mask_loop(caps, n) is mask after the first n rounds of the loop.)
RECURSIVE caps_to_mask_loop(_, _)
caps_to_mask_loop(caps, n) ==
    IF n = 0 THEN MaskZero
    ELSE BitOr(caps_to_mask_loop(caps, n - 1), OneShl(caps[n]))

_caps_to_mask(caps) == caps_to_mask_loop(caps, Len(caps))

\* A __u32 field of struct __user_cap_data_struct: two limbs.
\* m & 0xffffffff
low_word(m) == <<m[1], m[2]>>

\* Variant: the high word is not filled in.
high_word_zero(m) == <<0, 0>>

\* m >> 32, for a mask below 2^64
high_word(m) == <<m[3], m[4]>>

\* low | (high << 32)
join_words(low, high) ==
    BitOr(<<low[1], low[2], 0, 0, 0>>, <<0, 0, high[1], high[2], 0>>)

\* ffi.new('struct __user_cap_data_struct[2]') filled from three masks.
cap_data(eff, prm, inh) ==
    <<[effective |-> low_word(eff), permitted |-> low_word(prm),
       inheritable |-> low_word(inh)],
      [effective |-> high_word(eff), permitted |-> high_word(prm),
       inheritable |-> high_word(inh)]>>

\* Variant: a nonzero return is not looked at.
call_never_failed(ret) == FALSE

\* if ret != 0:
call_failed(ret) == ret # 0

\* ------------------------------------------------------------ the inputs
\* Capability ids at the ends of the two 32-bit words and of the limbs.
CapIdSeq == <<0, 63, 32, 31, 16, 47, 15, 48>>
CapIds == {CapIdSeq[i] : i \in 1..NCaps}

\* The set S as a list in descending order.
RECURSIVE DescList(_)
DescList(S) ==
    IF S = {} THEN << >>
    ELSE LET m == CHOOSE x \in S : \A y \in S : y <= x
         IN  <<m>> \o DescList(S \ {m})

\* The capability lists handed to drop_all_caps_except.
CapLists == {DescList(S) : S \in SUBSET CapIds}

\* Lists handed to _caps_to_mask: any order, duplicates, and an id above 63.
CodecLists == UNION {[1..n -> CapIds \cup {64}] : n \in 0..MaxCaps}

\* Masks handed to _mask_to_caps, also wider than 64 bits.
CodecMasks == [1..5 -> {0, 1, 384, 32768, 32769}]

\* What the kernel returns, and the error codes it sets (EPERM, EINVAL).
KernelRets == {0, -1}
Errnos == {1, 22}

\* The capabilities the process holds at the start: all the kernel knows, or none.
KernelStarts ==
    {cap_data(MaskZero, MaskZero, MaskZero),
     cap_data(<<65535, 65535, 511, 0, 0>>, <<65535, 65535, 511, 0, 0>>, MaskZero)}

NoCall == [op |-> "none", ret |-> 0, kerrno |-> 0, raised |-> FALSE, errno |-> 0,
           value |-> << >>, syscalls |-> << >>]

CapStart ==
    /\ argE = << >> /\ argP = << >> /\ argI = << >>
    /\ kdata = cap_data(MaskZero, MaskZero, MaskZero)
    /\ keepcaps = FALSE
    /\ ffi_errno = 0
    /\ dropped = FALSE
    /\ last = NoCall

CodecStart ==
    /\ cin_kind = "none"
    /\ cin = << >>
    /\ cmid = << >>
    /\ cout = << >>
    /\ cstep = 0

\* ffi.errno after a C call: set by a failing call, left alone otherwise.
errno_after(ret, e) == IF ret = 0 THEN ffi_errno ELSE e

\* What a library call leaves behind: raise OSError(errno, ...) or a value.
Outcome(op, sys, ret, e, v) ==
    [op |-> op, ret |-> ret, kerrno |-> IF ret = 0 THEN 0 ELSE e,
     raised |-> call_failed(ret),
     errno |-> IF call_failed(ret) THEN errno_after(ret, e) ELSE 0,
     value |-> IF call_failed(ret) THEN << >> ELSE v,
     syscalls |-> <<sys>>]

\* set_keepcaps(enable): one prctl(PR_SET_KEEPCAPS, bool(enable)).
set_keepcaps(enable, ret, e) ==
    /\ keepcaps' = IF ret = 0 THEN enable ELSE keepcaps
    /\ ffi_errno' = errno_after(ret, e)
    /\ last' = Outcome("set_keepcaps", "prctl", ret, e, << >>)
    /\ UNCHANGED <<argE, argP, argI, kdata, dropped>>
    /\ UNCHANGED <<codecVars, chanVars, frameVars, finVars>>

\* drop_all_caps_except(effective, permitted, inheritable): one capset.
drop_all_caps_except(ret, e) ==
    /\ LET eff == _caps_to_mask(argE)
           prm == _caps_to_mask(argP)
           inh == _caps_to_mask(argI)
       IN  kdata' = IF ret = 0 THEN cap_data(eff, prm, inh) ELSE kdata
    /\ dropped' = (dropped \/ ret = 0)
    /\ ffi_errno' = errno_after(ret, e)
    /\ last' = Outcome("drop_all_caps_except", "capset", ret, e, << >>)
    /\ UNCHANGED <<argE, argP, argI, keepcaps>>
    /\ UNCHANGED <<codecVars, chanVars, frameVars, finVars>>

\* get_caps(): one capget, then the three masks decoded.
get_caps(ret, e) ==
    /\ ffi_errno' = errno_after(ret, e)
    /\ last' = Outcome("get_caps", "capget", ret, errno_after(ret, e),
                       <<_mask_to_caps(join_words(kdata[1].effective, kdata[2].effective)),
                         _mask_to_caps(join_words(kdata[1].permitted, kdata[2].permitted)),
                         _mask_to_caps(join_words(kdata[1].inheritable, kdata[2].inheritable))>>)
    /\ UNCHANGED <<argE, argP, argI, kdata, keepcaps, dropped>>
    /\ UNCHANGED <<codecVars, chanVars, frameVars, finVars>>

\* _mask_to_caps applied to the mask given, or to the mask _caps_to_mask built.
apply_mask_to_caps ==
    /\ \/ /\ cin_kind = "mask" /\ cstep = 0
          /\ cmid' = _mask_to_caps(cin)
          /\ UNCHANGED cout
       \/ /\ cin_kind = "caps" /\ cstep = 1
          /\ cout' = _mask_to_caps(cmid)
          /\ UNCHANGED cmid
    /\ cstep' = cstep + 1
    /\ UNCHANGED <<cin_kind, cin>>
    /\ UNCHANGED <<capVars, chanVars, frameVars, finVars>>

\* _caps_to_mask applied to the list given, or to the list _mask_to_caps built.
apply_caps_to_mask ==
    /\ \/ /\ cin_kind = "caps" /\ cstep = 0
          /\ cmid' = _caps_to_mask(cin)
          /\ UNCHANGED cout
       \/ /\ cin_kind = "mask" /\ cstep = 1
          /\ cout' = _caps_to_mask(cmid)
          /\ UNCHANGED cmid
    /\ cstep' = cstep + 1
    /\ UNCHANGED <<cin_kind, cin>>
    /\ UNCHANGED <<capVars, chanVars, frameVars, finVars>>

\* ================================================== finite stream buffers
\* ClientChannel over a socket whose two directions hold at most BufCap chunks
\* each: sendall writes a frame of FrameChunks chunks one at a time and blocks
\* while the buffer is full; recv takes one chunk at a time.  The callers are
\* threads with distinct idents; the peer is one thread that reads a request
\* and then writes its reply.
Chunk(id, k) == [id |-> id, k |-> k]

\* sendall can write its next chunk into buffer b.
has_room(b) == Len(b) < BufCap

FinStart ==
    /\ fpc = [t \in Threads |-> "idle"]
    /\ fsent = [t \in Threads |-> 0]
    /\ fdata = [t \in Threads |-> NoData]
    /\ freg = {}
    /\ flock = {}
    /\ fup = << >>
    /\ fdown = << >>
    /\ fsrv = [st |-> "reading", id |-> 0, n |-> 0]
    /\ frdr = [st |-> "reading", id |-> 0, n |-> 0]

\* send_recv: with self.lock: assert; register.
fin_send_recv_begin(t) ==
    /\ fpc[t] = "idle"
    /\ flock = {}
    /\ flock' = {t}
    /\ freg' = freg \cup {t}
    /\ fpc' = [fpc EXCEPT ![t] = "writing"]
    /\ UNCHANGED <<fsent, fdata, fup, fdown, fsrv, frdr>>
    /\ UNCHANGED <<chanVars, frameVars, capVars, codecVars>>

\* writer.send under the lock: sendall writes one more chunk when there is
\* room; after the last one future.result() waits and the lock is released.
fin_send_recv_write(t) ==
    /\ fpc[t] = "writing"
    /\ has_room(fup)
    /\ fup' = Append(fup, Chunk(t, fsent[t] + 1))
    /\ fsent' = [fsent EXCEPT ![t] = @ + 1]
    /\ IF fsent[t] + 1 = FrameChunks
       THEN /\ fpc' = [fpc EXCEPT ![t] = "waiting"]
            /\ flock' = wait_releases_lock(flock, t)
       ELSE UNCHANGED <<fpc, flock>>
    /\ UNCHANGED <<fdata, freg, fdown, fsrv, frdr>>
    /\ UNCHANGED <<chanVars, frameVars, capVars, codecVars>>

\* The woken caller takes the lock again, returns its reply and deregisters.
fin_send_recv_result(t) ==
    /\ fpc[t] = "woken"
    /\ flock = {}
    /\ fpc' = [fpc EXCEPT ![t] = "returned"]
    /\ freg' = freg \ {t}
    /\ UNCHANGED <<fsent, fdata, flock, fup, fdown, fsrv, frdr>>
    /\ UNCHANGED <<chanVars, frameVars, capVars, codecVars>>

\* The peer's Deserializer: one recv; a whole request starts the reply.
fin_server_read ==
    /\ fsrv.st = "reading"
    /\ fup # << >>
    /\ fup' = Tail(fup)
    /\ fsrv' = IF fsrv.n + 1 = FrameChunks
               THEN [st |-> "writing", id |-> Head(fup).id, n |-> 0]
               ELSE [fsrv EXCEPT !.n = @ + 1]
    /\ UNCHANGED <<fpc, fsent, fdata, freg, flock, fdown, frdr>>
    /\ UNCHANGED <<chanVars, frameVars, capVars, codecVars>>

\* The peer's ServerChannel.send: sendall writes one more chunk of the reply
\* when there is room; after the last one the peer reads again.
fin_server_write ==
    /\ fsrv.st = "writing"
    /\ has_room(fdown)
    /\ fdown' = Append(fdown, Chunk(fsrv.id, fsrv.n + 1))
    /\ fsrv' = IF fsrv.n + 1 = FrameChunks
               THEN [st |-> "reading", id |-> 0, n |-> 0]
               ELSE [fsrv EXCEPT !.n = @ + 1]
    /\ UNCHANGED <<fpc, fsent, fdata, freg, flock, fup, frdr>>
    /\ UNCHANGED <<chanVars, frameVars, capVars, codecVars>>

\* _reader_main inside next(reader): one recv, without the lock.
fin_reader_read ==
    /\ frdr.st = "reading"
    /\ fdown # << >>
    /\ fdown' = Tail(fdown)
    /\ frdr' = IF frdr.n + 1 = FrameChunks
               THEN [st |-> "got", id |-> Head(fdown).id, n |-> 0]
               ELSE [frdr EXCEPT !.n = @ + 1]
    /\ UNCHANGED <<fpc, fsent, fdata, freg, flock, fup, fsrv>>
    /\ UNCHANGED <<chanVars, frameVars, capVars, codecVars>>

\* with self.lock: assert msgid in outstanding_msgs; set_result(data).
fin_reader_deliver ==
    /\ frdr.st = "got"
    /\ flock = {}
    /\ fdata' = [fdata EXCEPT ![frdr.id] = Echo(Msg(frdr.id))]
    /\ fpc' = notify(fpc, frdr.id)
    /\ frdr' = [st |-> "reading", id |-> 0, n |-> 0]
    /\ UNCHANGED <<fsent, freg, flock, fup, fdown, fsrv>>
    /\ UNCHANGED <<chanVars, frameVars, capVars, codecVars>>

\* ------------------------------------------------------------ specification
Init == ChanInit /\ FrameStart(FALSE) /\ CapStart /\ CodecStart /\ FinStart

ClientStep ==
    \/ \E t \in Threads : send_recv_send(t)
    \/ \E t \in Threads : send_recv_result(t)
    \/ reader_next
    \/ reader_stop
    \/ reader_truncated
    \/ reader_deliver
    \/ reader_eof
    \/ close_shutdown
    \/ close_join

ServerStep ==
    \/ \E s \in Servers : server_next_enter(s)
    \/ \E s \in Servers : server_next(s)
    \/ \E s \in Servers : server_stop(s)
    \/ \E s \in Servers : server_send_begin(s)
    \/ \E s \in Servers : server_send(s)
    \/ server_close

ChanNext ==
    \/ \E t \in Threads : send_recv_begin(t)
    \/ close_call
    \/ ClientStep
    \/ ServerStep
    \/ server_bogus
    \/ server_shutdown
    \/ server_exit

Next == ChanNext

Spec == Init /\ [][Next]_vars

\* Threads that are scheduled run; the peer, while it lives, serves.
FairSpec == Spec /\ WF_vars(ClientStep) /\ WF_vars(ServerStep)

FrameInit == ChanInit /\ CapStart /\ CodecStart /\ FinStart /\ \E be \in BOOLEAN : FrameStart(be)

FrameStep ==
    \/ \E v \in Vals : Serializer_send(v)
    \/ Serializer_close
    \/ \E v \in Vals, k \in 1..(HDRFMT_LEN + 1) : writer_dies(v, k)
    \/ \E k \in 1..Len(stream) : Deserializer_recv(k)
    \/ Deserializer_eof

FrameNext == FrameStep

FrameSpec == FrameInit /\ [][FrameNext]_vars

\* The capability calls of one process, in any order, the kernel answering each
\* with success or an error.
CapInit ==
    /\ ChanInit /\ FrameStart(FALSE) /\ CodecStart /\ FinStart
    /\ argE \in CapLists /\ argP \in CapLists /\ argI \in CapLists
    /\ kdata \in KernelStarts
    /\ keepcaps = FALSE
    /\ ffi_errno = 0
    /\ dropped = FALSE
    /\ last = NoCall

\* What a C call can do: return 0, or return nonzero with errno set.
KernelAnswers == {<<0, 0>>} \cup {<<ret, e>> : ret \in KernelRets \ {0}, e \in Errnos}

CapStep ==
    \/ \E enable \in BOOLEAN, k \in KernelAnswers : set_keepcaps(enable, k[1], k[2])
    \/ \E k \in KernelAnswers : drop_all_caps_except(k[1], k[2])
    \/ \E k \in KernelAnswers : get_caps(k[1], k[2])

CapNext == CapStep

CapSpec == CapInit /\ [][CapNext]_vars

\* The two codec functions applied one after the other, either one first.
CodecInit ==
    /\ ChanInit /\ FrameStart(FALSE) /\ CapStart /\ FinStart
    /\ \/ cin_kind = "mask" /\ cin \in CodecMasks
       \/ cin_kind = "caps" /\ cin \in CodecLists
    /\ cmid = << >>
    /\ cout = << >>
    /\ cstep = 0

CodecStep ==
    \/ apply_mask_to_caps
    \/ apply_caps_to_mask

CodecNext == CodecStep

CodecSpec == CodecInit /\ [][CodecNext]_vars

\* Callers, the reader and a single-threaded peer over finite buffers.
FinInit == ChanInit /\ FrameStart(FALSE) /\ CapStart /\ CodecStart /\ FinStart

FinStep ==
    \/ \E t \in Threads : fin_send_recv_begin(t)
    \/ \E t \in Threads : fin_send_recv_write(t)
    \/ \E t \in Threads : fin_send_recv_result(t)
    \/ fin_server_read
    \/ fin_server_write
    \/ fin_reader_read
    \/ fin_reader_deliver

FinNext == FinStep

FinSpec == FinInit /\ [][FinNext]_vars

\* ================================================================ properties

\* C1: every send_recv call that returns, returns the reply to its own request
\* (the payload of the frame that carries its call-id), never another caller's,
\* in every interleaving of callers, peer threads and the background reader.
C1_OwnReply ==
    \A t \in Threads : pc[t] = "returned" => reply[t] = Echo(Msg(t))

\* Two callers with different call-ids have returned, and the call-id of one
\* of them is registered again by a third caller.
C1_Witness ==
    \E t1, t2, t3 \in Threads :
        /\ get_thread_ident(t1) # get_thread_ident(t2)
        /\ pc[t1] = "returned" /\ pc[t2] = "returned"
        /\ t3 # t1 /\ get_thread_ident(t3) = get_thread_ident(t1)
        /\ pc[t3] \in Registered

\* C2: when the reader has handled end-of-stream (resolving, under the lock,
\* every Future then registered with the 'premature EOF' error, and ending),
\* every caller that was outstanding at that moment eventually raises that
\* error; none stays blocked.
C2_EOFFanOut ==
    /\ [][rpc = "eof" /\ rpc' = "done" =>
            /\ lock = {}
            /\ \A i \in DOMAIN outstanding_msgs : error'[outstanding_msgs[i]] = "IOError"]_vars
    /\ \A t \in Threads :
            (rpc = "done" /\ ~late[t] /\ pc[t] \in Registered) ~> (pc[t] = "IOError")

\* The reader has ended after EOF and two callers have raised the EOF error.
C2_Witness ==
    /\ rpc = "done"
    /\ \E t1, t2 \in Threads : t1 # t2 /\ pc[t1] = "IOError" /\ pc[t2] = "IOError"

\* C3, as the specification states it: no Future receives more than one set_result/set_exception
\* call in total, and a call that leaves send_recv after its wait was resolved
\* exactly once.  (A call whose own write raised counts as resolved by that
\* transport error.)
C3_ResolvedOnce ==
    \A t \in Threads :
        /\ resolved[t] <= 1
        /\ pc[t] \in {"returned", "IOError"} => resolved[t] = 1

\* C4, as the specification states it: whenever the reader thread has stopped, for whatever
\* reason, every call that was outstanding has been woken with an error.
C4_ReaderErrorsReachCallers ==
    ReaderTerminated =>
        \A t \in Threads :
            (pc[t] \in Registered /\ ~late[t]) => (pc[t] = "woken" /\ error[t] # "None")

\* C6, as the specification states it: a send_recv begun after the reader has handled
\* end-of-stream fails with an error: it neither blocks in the wait nor
\* returns a reply.
C6_DeadAfterEOF ==
    \A t \in Threads :
        (rpc = "done" /\ late[t]) => pc[t] \notin {"waiting", "woken", "returned"}

\* C7: no two calls in progress are registered under one call-id, a registered
\* call's Future is the one the registry holds under its id, and a send_recv
\* whose call-id is already registered ends in an assertion failure without
\* changing the registry, the stream or any Future.
C7_OnePendingCallPerId ==
    /\ [](\A t1, t2 \in Threads :
            (t1 # t2 /\ pc[t1] \in Registered /\ pc[t2] \in Registered)
                => get_thread_ident(t1) # get_thread_ident(t2))
    /\ [](\A t \in Threads :
            pc[t] \in Registered =>
                /\ get_thread_ident(t) \in DOMAIN outstanding_msgs
                /\ outstanding_msgs[get_thread_ident(t)] = t)
    /\ [][\A t \in Threads :
            (pc[t] = "idle" /\ pc'[t] # "idle"
                /\ get_thread_ident(t) \in DOMAIN outstanding_msgs)
            => /\ pc'[t] = "AssertionError"
               /\ UNCHANGED <<outstanding_msgs, c2s, data, error, lock>>]_vars

\* A caller failed the assertion while the first call under its call-id is
\* still registered.
C7_Witness ==
    \E t1, t2 \in Threads :
        /\ t1 # t2 /\ get_thread_ident(t1) = get_thread_ident(t2)
        /\ pc[t1] = "AssertionError"
        /\ pc[t2] = "waiting"
        /\ outstanding_msgs[get_thread_ident(t2)] = t2

\* C9: what is on either direction of the stream is always a sequence of
\* whole frames, followed by at most the header of the frame that the holder
\* of that direction's lock is writing (or that a writer left when the peer
\* process ended); close() never shuts the write half inside a frame.
C9_WritesAtomic ==
    /\ FramesThenHeader(c2s)
    /\ FramesThenHeader(s2c)
    /\ Len(c2s) % 2 = 1 =>
          \/ peerGone
          \/ \E t \in Threads :
                /\ pc[t] = "sending" /\ lock = {t}
                /\ c2s[Len(c2s)] = Piece("hdr", get_thread_ident(t), Msg(t))
    /\ Len(s2c) % 2 = 1 =>
          \/ peerGone
          \/ \E s \in Servers : spc[s] = "sending" /\ wlock = {s}
    /\ (c2sShut /\ ~peerGone) => WholeFrames(c2s)

\* A caller and a peer thread are each between the two pieces of a frame,
\* while another caller has yet to begin.
C9_Witness ==
    /\ \E t1, t2 \in Threads : pc[t1] = "sending" /\ pc[t2] = "idle"
    /\ \E s \in Servers : spc[s] = "sending"
    /\ Len(c2s) % 2 = 1
    /\ Len(s2c) % 2 = 1
    /\ ~peerGone

\* C10: close() shuts the write half with the lock free for it to take, joins
\* only afterwards, returns only once the reader thread has ended, and, the
\* peer closing its side in answer, does return, also with calls outstanding.
C10_CloseJoinsReader ==
    /\ [](cpc = "returned" => ReaderTerminated)
    /\ [](cpc \in {"joining", "returned"} => c2sShut)
    /\ [][c2sShut' # c2sShut => (lock = {} /\ cpc = "entered" /\ cpc' = "joining")]_vars
    /\ (cpc = "entered") ~> (cpc = "returned")

\* close() has returned while a call that was outstanding has not yet taken
\* the lock again to raise its EOF error.
C10_Witness ==
    /\ cpc = "returned"
    /\ rpc = "done"
    /\ \E t \in Threads : pc[t] = "woken" /\ error[t] = "IOError"

\* ------------------------------------------------------------ byte level
IsPrefix(a, b) == Len(a) <= Len(b) /\ SubSeq(b, 1, Len(a)) = a

\* __next__ is between two frames.
AtBoundary == phase = "hdr" /\ buf = << >>

\* C5, as the specification states it: the Deserializer ends cleanly (StopIteration) only when
\* the stream closed at a frame boundary; a stream closed inside a frame gives
\* EOFError.
C5_CleanEndOnlyAtBoundary ==
    /\ phase = "StopIteration" => ~cut
    /\ (cut /\ phase \notin {"hdr", "body"}) => phase = "EOFError"

\* C8: whatever sizes recv returns, the Deserializer yields the values sent,
\* in order; between frames it has consumed exactly header + payload bytes of
\* each frame yielded; and on a stream closed by the writer after whole frames
\* it ends cleanly, having yielded them all.
C8_RoundTrip ==
    /\ IsPrefix(out, sent)
    /\ AtBoundary => nread = Len(Encode(out, bigEndian))
    /\ ~cut => phase # "EOFError"
    /\ (~cut /\ phase = "StopIteration") =>
            (out = sent /\ nread = Len(Encode(sent, bigEndian)))
    /\ (~cut /\ wclosed /\ stream = << >> /\ phase # "StopIteration") => AtBoundary

\* The writer sent a two-byte and a one-byte payload and closed; the reader,
\* having received some header in pieces, yielded both and ended cleanly.
C8_Witness ==
    /\ phase = "StopIteration"
    /\ ~cut
    /\ Len(out) = 2
    /\ out[1] >= 10
    /\ out[2] < 10

\* ------------------------------------------------------- close and replies
\* C11, as the specification states it: once close() has shut the write half,
\* a call that was outstanding and whose reply the reader has delivered returns
\* that reply, and only a call with no reply delivered raises the EOF error.
C11_RepliesSurviveClose ==
    \A t \in Threads :
        (c2sShut /\ ~late[t]) =>
            /\ pc[t] = "returned" => reply[t] = Echo(Msg(t))
            /\ pc[t] = "IOError" => data[t] = NoData

\* --------------------------------------------------- ServerChannel's locks
\* C12: a peer thread inside __next__ holds the read lock and only it, a peer
\* thread inside send holds the write lock and only it; each lock has at most
\* one holder, so a second read (or send) waits for the first; and a thread in
\* (or blocked in) a read never keeps another thread from entering or
\* completing a send, nor a thread in a send another from entering a read.
C12_IndependentLocks ==
    [](~peerGone =>
        /\ Cardinality(rlock) <= 1
        /\ Cardinality(wlock) <= 1
        /\ \A s \in Servers :
              /\ spc[s] = "reading" <=> s \in rlock
              /\ spc[s] = "sending" <=> s \in wlock
              /\ ~(s \in rlock /\ s \in wlock)
              /\ spc[s] = "got" => (ENABLED server_send_begin(s) <=> wlock = {})
              /\ spc[s] = "sending" => ENABLED server_send(s)
              /\ spc[s] = "idle" => (ENABLED server_next_enter(s) <=> rlock = {}))

\* One peer thread is blocked in a read of an empty stream, a second is inside
\* a send, and the client has already received a reply the peer sent earlier.
C12_Witness ==
    /\ ~peerGone
    /\ \E s1, s2 \in Servers :
          /\ spc[s1] = "reading" /\ c2s = << >>
          /\ spc[s2] = "sending"
    /\ \E t \in Threads : pc[t] = "returned"

\* ------------------------------------------------------------ the registry
\* C16: the keys of the registry are exactly the call-ids of the callers that
\* are between registration and exit of send_recv, and whichever way a
\* registered call leaves send_recv (reply, EOF error, failed write) its
\* call-id is not in the registry afterwards.
C16_DeregistersOnExit ==
    /\ [](DOMAIN outstanding_msgs =
            {get_thread_ident(t) : t \in {u \in Threads : pc[u] \in Registered}})
    /\ [][\A t \in Threads :
            (pc[t] \in Registered /\ pc'[t] \notin Registered)
                => get_thread_ident(t) \notin DOMAIN outstanding_msgs']_vars

\* Three registered calls have left send_recv, one by each exit: a reply, the
\* EOF error, a write that raised after registration; the registry is empty.
C16_Witness ==
    /\ \E t1, t2, t3 \in Threads :
          /\ pc[t1] = "returned"
          /\ pc[t2] = "IOError"
          /\ pc[t3] = "WriteError" /\ Len(c2s) % 2 = 1
    /\ outstanding_msgs = << >>

\* ------------------------------------------------------------ the wake-up
\* C17: a caller holds the lock from its registration until it waits, so the
\* reader calls set_result / set_exception only on a Future whose owner has
\* begun to wait, and the call leaves the owner woken: no Future is resolved
\* while its owner is still writing, and no owner stays in the wait with an
\* outcome stored.
C17_NoLostWakeup ==
    /\ [](\A t \in Threads : pc[t] = "sending" => lock = {t})
    /\ [][\A t \in Threads :
            resolved'[t] # resolved[t] =>
                (pc[t] \in {"waiting", "woken"} /\ pc'[t] = "woken")]_vars
    /\ [](\A t \in Threads :
            pc[t] \in {"sending", "waiting"} =>
                (resolved[t] = 0 /\ data[t] = NoData /\ error[t] = "None"))

\* The reader has an outcome to store (end-of-stream) while a registered caller
\* is still writing under the lock; another caller was woken by its reply.
C17_Witness ==
    /\ rpc = "eof"
    /\ \E t1, t2 \in Threads :
          /\ pc[t1] = "sending" /\ lock = {t1}
          /\ get_thread_ident(t1) \in DOMAIN outstanding_msgs
          /\ pc[t2] = "woken" /\ data[t2] = Echo(Msg(t2))

\* ------------------------------------------------------- the channel lock
\* C18: the lock has at most one holder, and a caller blocked in the wait
\* for its reply (or woken and not yet running again) does not hold it; so
\* with callers blocked and nobody writing, the lock is free: another caller
\* can register and write, and the reader can take the lock to resolve a
\* Future.
C18_WaitReleasesLock ==
    [](/\ Cardinality(lock) <= 1
       /\ \A t \in Threads : pc[t] \in {"waiting", "woken"} => t \notin lock
       /\ (\A t \in Threads : pc[t] # "sending") =>
             /\ lock = {}
             /\ \A t \in Threads : pc[t] = "idle" => ENABLED send_recv_begin(t)
             /\ rpc = "got" => ENABLED reader_deliver
             /\ rpc = "eof" => ENABLED reader_eof)

\* One caller is blocked in the wait while another, having registered after
\* it, writes under the lock, and a third has had its reply and returned.
C18_Witness ==
    \E t1, t2, t3 \in Threads :
        /\ pc[t1] = "waiting"
        /\ pc[t2] = "sending" /\ lock = {t2}
        /\ pc[t3] = "returned"

\* ------------------------------------------------ reply before end-of-stream
\* C19, as the specification states it: a call whose reply the reader read and
\* delivered before the stream ended returns that reply; it does not raise
\* the EOF error, however the reader's EOF handling and the woken caller's
\* re-acquiring of the lock interleave.
C19_ReplyBeforeEOFWins ==
    \A t \in Threads :
        data[t] # NoData =>
            /\ pc[t] \in {"woken", "returned"}
            /\ pc[t] = "returned" => reply[t] = data[t]

\* ------------------------------------------------------- capability codec
Range(s) == {s[i] : i \in DOMAIN s}

\* The elements of S as a list in ascending order.
SortedSeqOf(S) ==
    CHOOSE q \in [1..Cardinality(S) -> S] :
        \A i, j \in 1..Cardinality(S) : i < j => q[i] < q[j]

\* C13: _caps_to_mask(_mask_to_caps(m)) = m for every mask m below 2^64;
\* _mask_to_caps(_caps_to_mask(s)) is the ascending list of s for every
\* duplicate-free list s of ids in 0..63; and every id that _mask_to_caps
\* returns, whatever the mask, lies in 0..63.
C13_CodecBijection ==
    /\ (cin_kind = "mask" /\ cstep >= 1) => Range(cmid) \subseteq 0..63
    /\ (cin_kind = "caps" /\ cstep = 2) => Range(cout) \subseteq 0..63
    /\ (cin_kind = "mask" /\ cstep = 2 /\ cin[5] = 0) => cout = cin
    /\ (cin_kind = "caps" /\ cstep = 2 /\ Range(cin) \subseteq 0..63
            /\ Cardinality(Range(cin)) = Len(cin))
          => cout = SortedSeqOf(Range(cin))

\* A list naming the highest id before the lowest has been encoded and
\* decoded again.
C13_Witness ==
    /\ cin_kind = "caps"
    /\ cstep = 2
    /\ cin = <<63, 0>>
    /\ cmid = <<1, 0, 0, 32768, 0>>
    /\ cout = <<0, 63>>

\* ------------------------------------------------- drop_all_caps_except
\* C14: once drop_all_caps_except(E, P, I) has succeeded, get_caps() returns
\* the ascending lists of E, of P and of I, in that order, whatever the
\* process held before and also for ids of the high 32-bit word.
C14_DropIsAbsolute ==
    (dropped /\ last.op = "get_caps" /\ ~last.raised) =>
        last.value = <<SortedSeqOf(Range(argE)), SortedSeqOf(Range(argP)),
                       SortedSeqOf(Range(argI))>>

\* Three different sets, with ids of both words, were set and read back.
C14_Witness ==
    /\ dropped
    /\ argE = <<32, 0>> /\ argP = <<63, 32, 0>> /\ argI = <<63>>
    /\ last.op = "get_caps" /\ ~last.raised
    /\ last.value = <<(<<0, 32>>), (<<0, 32, 63>>), (<<63>>)>>

\* ------------------------------------------------------ kernel-call failure
\* C15: each of set_keepcaps, drop_all_caps_except and get_caps issues its
\* kernel call (prctl, capset, capget) exactly once; it raises OSError exactly
\* when that call returned nonzero, the error then carries the errno the
\* kernel set and no capability sets are returned.
C15_KernelFailureRaises ==
    last.op # "none" =>
        /\ last.raised <=> last.ret # 0
        /\ last.raised => (last.errno = last.kerrno /\ last.value = << >>)
        /\ last.syscalls =
              <<CASE last.op = "set_keepcaps" -> "prctl"
                  [] last.op = "drop_all_caps_except" -> "capset"
                  [] last.op = "get_caps" -> "capget">>
        /\ (last.op = "get_caps" /\ ~last.raised) => Len(last.value) = 3

\* capget failed with EINVAL, a capset and a prctl having succeeded before
\* it: get_caps raised OSError with that code.
C15_Witness ==
    /\ last.op = "get_caps"
    /\ last.ret = -1
    /\ last.raised
    /\ last.errno = 22
    /\ dropped
    /\ keepcaps

\* ------------------------------------------------- finite stream buffers
\* A caller holds the lock and its sendall cannot write, the reader holds a
\* reply it cannot deliver without the lock, and the peer cannot write.
CircularWait ==
    /\ \E t \in Threads : fpc[t] = "writing" /\ flock = {t} /\ ~has_room(fup)
    /\ frdr.st = "got"
    /\ fsrv.st = "writing" /\ ~has_room(fdown)

\* C20, as the specification states it: with finite buffers in both
\* directions and a single-threaded peer, the system never reaches a state in
\* which a caller is blocked in the write holding the lock, the reader waits
\* for the lock with an undelivered reply, and the peer is blocked writing.
C20_NoCircularWait == ~CircularWait

====
